---- MODULE Spec2Model ----
(***************************************************************************)
(* Model of src/relay/op/memory/on_device.cc: the "on_device" annotation   *)
(* call (OnDevice), the merging wrapper (MaybeOnDevice), the decomposition *)
(* (GetOnDeviceProps) and the per-function placement attributes            *)
(* (FunctionOnDevice, MaybeFunctionOnDevice, GetFunctionResultSEScope,     *)
(* GetFunctionParamSEScope).                                               *)
(*                                                                         *)
(* Expressions are immutable values.  An expression is a record            *)
(*   [kind, op, args, attrs]                                               *)
(* where kind is the node class, op the callee of a Call, args the         *)
(* argument list and attrs a sequence holding the OnDeviceAttrs when they  *)
(* are defined.  A failed ICHECK is modelled by a result whose status is   *)
(* the name of the failed check and whose expression is Undefined.         *)
(***************************************************************************)
EXTENDS Integers, Sequences, FiniteSets, TLC

VARIABLES cur, last, function, query

vars == <<cur, last, function, query>>

\* ---------------------------------------------------------------- bounds
\* Deepest nesting of on_device calls that OnDevice is asked to build.
MaxDepth == 2
\* Largest function arity, and (plus one) longest attached scope array.
MaxArity == 2

\* ---------------------------------------------------------------- SEScope
FullyUnconstrained == "FullyUnconstrained"

ConcreteSEScopes == {"cpu", "gpu"}

SEScopes == {FullyUnconstrained} \cup ConcreteSEScopes

IsFullyUnconstrained(se_scope) == se_scope = FullyUnconstrained

\* ---------------------------------------------------------------- Expr
OnDeviceOp == "on_device"

Undefined == [kind |-> "Undefined", op |-> "", args |-> <<>>, attrs |-> <<>>]

Node(kind) == [kind |-> kind, op |-> "", args |-> <<>>, attrs |-> <<>>]

Call(op, args, attrs) == [kind |-> "CallNode", op |-> op, args |-> args, attrs |-> attrs]

\* The node classes MaybeOnDevice returns unchanged.
PolymorphicKinds == {"OpNode", "ConstructorNode", "GlobalVarNode", "VarNode", "FunctionNode"}

\* Expressions that are neither polymorphic nor on_device calls.
PlainExprs == {Node("ConstantNode"), Call("add", <<>>, <<>>)}

LeafExprs == {Node(k) : k \in PolymorphicKinds} \cup PlainExprs

IsInstance(expr, kind) == expr.kind = kind

Ok(expr) == [status |-> "ok", expr |-> expr]

Fatal(check) == [status |-> check, expr |-> Undefined]

\* ---------------------------------------------------------------- OnDevice
\* Mutant: the scope passed in is stored even when neither flag is set.
OnDeviceAttrs_KeepScope(se_scope, constrain_result, constrain_body) ==
  [se_scope         |-> se_scope,
   constrain_result |-> constrain_result,
   constrain_body   |-> constrain_body]

OnDeviceAttrs(se_scope, constrain_result, constrain_body) ==
  [se_scope         |-> IF constrain_result \/ constrain_body
                        THEN se_scope ELSE FullyUnconstrained,
   constrain_result |-> constrain_result,
   constrain_body   |-> constrain_body]

OnDevice(body, se_scope, constrain_result, constrain_body) ==
  IF ~((~constrain_result /\ ~constrain_body) \/ ~IsFullyUnconstrained(se_scope))
  THEN Fatal("OnDevice_ICHECK")
  ELSE Ok(Call(OnDeviceOp, <<body>>,
               <<OnDeviceAttrs(se_scope, constrain_result, constrain_body)>>))

\* ---------------------------------------------------------------- GetOnDeviceProps
NullProps ==
  [body |-> Undefined, se_scope |-> FullyUnconstrained,
   constrain_result |-> FALSE, constrain_body |-> FALSE]

\* Every on_device call of the model is built by OnDevice, so it has one
\* argument and defined OnDeviceAttrs: the three ICHECKs of lines 124-127 pass.
GetOnDeviceProps(expr) ==
  IF IsInstance(expr, "CallNode") /\ expr.op = OnDeviceOp
  THEN [body             |-> expr.args[1],
        se_scope         |-> expr.attrs[1].se_scope,
        constrain_result |-> expr.attrs[1].constrain_result,
        constrain_body   |-> expr.attrs[1].constrain_body]
  ELSE NullProps

Defined(expr) == expr # Undefined

\* ---------------------------------------------------------------- MaybeOnDevice
\* Mutant: function values are not treated as device polymorphic.
IsDevicePolymorphic_NoFunction(body) ==
  \/ IsInstance(body, "OpNode") \/ IsInstance(body, "ConstructorNode")
  \/ IsInstance(body, "GlobalVarNode") \/ IsInstance(body, "VarNode")

IsDevicePolymorphic(body) ==
  \/ IsInstance(body, "OpNode") \/ IsInstance(body, "ConstructorNode")
  \/ IsInstance(body, "GlobalVarNode") \/ IsInstance(body, "VarNode")
  \/ IsInstance(body, "FunctionNode")

\* Mutant: the check of outer result against inner body is left out.
OuterInnerAgree_Skipped(props, se_scope, constrain_result) == TRUE

\* Lines 88-93: outer result against inner body.
OuterInnerAgree(props, se_scope, constrain_result) ==
  (constrain_result /\ props.constrain_body) => props.se_scope = se_scope

\* Mutant: the check of the two middle constraints is left out.
MiddleAgree_Skipped(props, se_scope, constrain_body) == TRUE

\* Lines 96-101: the two constraints on the middle sub-expression.
MiddleAgree(props, se_scope, constrain_body) ==
  (constrain_body /\ props.constrain_result) => props.se_scope = se_scope

\* Mutant: the merged call always keeps the inner scope.
MergedSEScope_Inner(props, se_scope, constrain_result) == props.se_scope

\* Line 103: the scope handed to OnDevice for the merged call.
MergedSEScope(props, se_scope, constrain_result) ==
  IF props.constrain_body \/ constrain_result THEN se_scope ELSE props.se_scope

\* Mutant: the merged call takes its body flag from the outer request.
MergeOnDevice_OuterBodyFlag(props, se_scope, constrain_result, constrain_body) ==
  IF ~OuterInnerAgree(props, se_scope, constrain_result)
  THEN Fatal("ResultBody_ICHECK")
  ELSE IF ~MiddleAgree(props, se_scope, constrain_body)
  THEN Fatal("Middle_ICHECK")
  ELSE OnDevice(props.body, se_scope, constrain_result, constrain_body)

\* Lines 79-104: body is itself an on_device call.
MergeOnDevice(props, se_scope, constrain_result, constrain_body) ==
  IF ~OuterInnerAgree(props, se_scope, constrain_result)
  THEN Fatal("ResultBody_ICHECK")
  ELSE IF ~MiddleAgree(props, se_scope, constrain_body)
  THEN Fatal("Middle_ICHECK")
  ELSE OnDevice(props.body, MergedSEScope(props, se_scope, constrain_result),
                constrain_result, props.constrain_body)

\* Mutant: an existing on_device call is wrapped again instead of merged.
MaybeOnDevice_NoMerge(body, se_scope, constrain_result, constrain_body) ==
  IF IsFullyUnconstrained(se_scope) THEN Ok(body)
  ELSE IF IsDevicePolymorphic(body) THEN Ok(body)
  ELSE OnDevice(body, se_scope, constrain_result, constrain_body)

MaybeOnDevice(body, se_scope, constrain_result, constrain_body) ==
  IF IsFullyUnconstrained(se_scope) THEN Ok(body)
  ELSE IF IsDevicePolymorphic(body) THEN Ok(body)
  ELSE IF Defined(GetOnDeviceProps(body).body)
  THEN MergeOnDevice(GetOnDeviceProps(body), se_scope, constrain_result, constrain_body)
  ELSE OnDevice(body, se_scope, constrain_result, constrain_body)

\* ---------------------------------------------------------------- helpers on expressions
RECURSIVE Depth(_)
Depth(expr) ==
  IF Defined(GetOnDeviceProps(expr).body)
  THEN 1 + Depth(GetOnDeviceProps(expr).body)
  ELSE 0

\* ---------------------------------------------------------------- functions
\* A function value: its number of parameters and its attribute dictionary,
\* each key absent (<<>>) or holding one value.
NoAttrs == [kParamSEScopes |-> <<>>, kResultSEScope |-> <<>>]

WithAttrs(fn, param_se_scopes, result_se_scope) ==
  [fn EXCEPT !.attrs = [kParamSEScopes |-> <<param_se_scopes>>,
                        kResultSEScope |-> <<result_se_scope>>]]

FunctionOnDevice(fn, param_se_scopes, result_se_scope) ==
  WithAttrs(fn, param_se_scopes, result_se_scope)

MaybeFunctionOnDevice(fn, param_se_scopes, result_se_scope) ==
  IF /\ \A k \in 1..Len(param_se_scopes) : IsFullyUnconstrained(param_se_scopes[k])
     /\ IsFullyUnconstrained(result_se_scope)
  THEN fn
  ELSE FunctionOnDevice(fn, param_se_scopes, result_se_scope)

ScopeOk(se_scope) == [status |-> "ok", se_scope |-> se_scope]

NoSEScope == "Undefined"

ScopeFatal(check) == [status |-> check, se_scope |-> NoSEScope]

GetFunctionResultSEScope(fn) ==
  IF fn.attrs.kResultSEScope = <<>>
  THEN ScopeOk(FullyUnconstrained)
  ELSE ScopeOk(fn.attrs.kResultSEScope[1])

\* Mutant: the index check admits i = arity.
GetFunctionParamSEScope_LE(fn, i) ==
  IF ~(i <= fn.params) THEN ScopeFatal("Index_ICHECK_LT")
  ELSE IF fn.attrs.kParamSEScopes = <<>> THEN ScopeOk(FullyUnconstrained)
  ELSE IF Len(fn.attrs.kParamSEScopes[1]) # fn.params THEN ScopeFatal("Arity_ICHECK_EQ")
  ELSE ScopeOk(fn.attrs.kParamSEScopes[1][i + 1])

\* i is the zero-based C++ index; sequences are one-based.
GetFunctionParamSEScope(fn, i) ==
  IF ~(i < fn.params) THEN ScopeFatal("Index_ICHECK_LT")
  ELSE IF fn.attrs.kParamSEScopes = <<>> THEN ScopeOk(FullyUnconstrained)
  ELSE IF Len(fn.attrs.kParamSEScopes[1]) # fn.params THEN ScopeFatal("Arity_ICHECK_EQ")
  ELSE ScopeOk(fn.attrs.kParamSEScopes[1][i + 1])

\* ---------------------------------------------------------------- state machine
NoCall ==
  [op |-> "none", body |-> Undefined, se_scope |-> FullyUnconstrained,
   constrain_result |-> FALSE, constrain_body |-> FALSE,
   status |-> "none", out |-> Undefined]

CallRecord(op, body, se_scope, constrain_result, constrain_body, res) ==
  [op |-> op, body |-> body, se_scope |-> se_scope,
   constrain_result |-> constrain_result, constrain_body |-> constrain_body,
   status |-> res.status, out |-> res.expr]

NoQuery ==
  [op |-> "none", index |-> 0, status |-> "none", se_scope |-> FullyUnconstrained]

NoFunction == [params |-> 0, attrs |-> NoAttrs]

ScopeArrays == UNION {[1..n -> SEScopes] : n \in 0..(MaxArity + 1)}

Init ==
  /\ cur \in LeafExprs
  /\ last = NoCall
  /\ function = NoFunction
  /\ query = NoQuery

InitFn ==
  /\ cur = Undefined
  /\ last = NoCall
  /\ function \in {[params |-> n, attrs |-> NoAttrs] : n \in 0..MaxArity}
  /\ query = NoQuery

\* A caller builds an on_device call directly around the current expression.
DoOnDevice(se_scope, constrain_result, constrain_body) ==
  /\ Depth(cur) < MaxDepth
  /\ LET res == OnDevice(cur, se_scope, constrain_result, constrain_body) IN
       /\ cur' = IF res.status = "ok" THEN res.expr ELSE cur
       /\ last' = CallRecord("OnDevice", cur, se_scope, constrain_result,
                             constrain_body, res)
  /\ UNCHANGED <<function, query>>

\* A caller asks for the current expression to be annotated.
DoMaybeOnDevice(se_scope, constrain_result, constrain_body) ==
  /\ LET res == MaybeOnDevice(cur, se_scope, constrain_result, constrain_body) IN
       /\ cur' = IF res.status = "ok" THEN res.expr ELSE cur
       /\ last' = CallRecord("MaybeOnDevice", cur, se_scope, constrain_result,
                             constrain_body, res)
  /\ UNCHANGED <<function, query>>

\* A caller turns to another expression.
NewExpr(expr) ==
  /\ cur' = expr
  /\ last' = NoCall
  /\ UNCHANGED <<function, query>>

DoFunctionOnDevice(param_se_scopes, result_se_scope) ==
  /\ function' = FunctionOnDevice(function, param_se_scopes, result_se_scope)
  /\ query' = NoQuery
  /\ UNCHANGED <<cur, last>>

DoMaybeFunctionOnDevice(param_se_scopes, result_se_scope) ==
  /\ function' = MaybeFunctionOnDevice(function, param_se_scopes, result_se_scope)
  /\ query' = NoQuery
  /\ UNCHANGED <<cur, last>>

DoGetFunctionResultSEScope ==
  /\ LET res == GetFunctionResultSEScope(function) IN
       query' = [op |-> "GetFunctionResultSEScope", index |-> 0,
                 status |-> res.status, se_scope |-> res.se_scope]
  /\ UNCHANGED <<cur, last, function>>

DoGetFunctionParamSEScope(i) ==
  /\ LET res == GetFunctionParamSEScope(function, i) IN
       query' = [op |-> "GetFunctionParamSEScope", index |-> i,
                 status |-> res.status, se_scope |-> res.se_scope]
  /\ UNCHANGED <<cur, last, function>>

Next ==
  \/ \E s \in SEScopes, cr \in BOOLEAN, cb \in BOOLEAN : DoOnDevice(s, cr, cb)
  \/ \E s \in SEScopes, cr \in BOOLEAN, cb \in BOOLEAN : DoMaybeOnDevice(s, cr, cb)
  \/ \E e \in LeafExprs : NewExpr(e)

NextFn ==
  \/ \E ps \in ScopeArrays, r \in SEScopes : DoFunctionOnDevice(ps, r)
  \/ \E ps \in ScopeArrays, r \in SEScopes : DoMaybeFunctionOnDevice(ps, r)
  \/ DoGetFunctionResultSEScope
  \/ \E i \in 0..(MaxArity + 1) : DoGetFunctionParamSEScope(i)

Spec == Init /\ [][Next]_vars

SpecFn == InitFn /\ [][NextFn]_vars

\* ---------------------------------------------------------------- properties
ContradictionChecks == {"ResultBody_ICHECK", "Middle_ICHECK"}

IsOnDevice(expr) == Defined(GetOnDeviceProps(expr).body)

\* The last step was MaybeOnDevice(body, se_scope, cr, cb).
LastMaybe(body, se_scope, constrain_result, constrain_body) ==
  /\ last.op = "MaybeOnDevice"
  /\ last.body = body
  /\ last.se_scope = se_scope
  /\ last.constrain_result = constrain_result
  /\ last.constrain_body = constrain_body

\* The last step was MaybeOnDevice with a concrete scope on an on_device call.
LastMergedConcrete ==
  /\ last.op = "MaybeOnDevice"
  /\ last.se_scope \in ConcreteSEScopes
  /\ IsOnDevice(last.body)

RECURSIVE WellFormed(_)
WellFormed(expr) ==
  IF IsOnDevice(expr)
  THEN /\ (~GetOnDeviceProps(expr).constrain_result /\ ~GetOnDeviceProps(expr).constrain_body)
            => GetOnDeviceProps(expr).se_scope = FullyUnconstrained
       /\ WellFormed(GetOnDeviceProps(expr).body)
  ELSE TRUE

\* C1: for a plain expression x and concrete scopes A # B,
\* MaybeOnDevice(MaybeOnDevice(x, A, false, true), B, true, false) fails one of
\* the scope-contradiction checks and yields no expression.
C1_ContradictionDetected ==
  \A x \in PlainExprs, A \in ConcreteSEScopes, B \in ConcreteSEScopes :
    (A # B /\ LastMaybe(MaybeOnDevice(x, A, FALSE, TRUE).expr, B, TRUE, FALSE))
      => (last.status \in ContradictionChecks /\ last.out = Undefined)

C1_Witness ==
  /\ LastMaybe(MaybeOnDevice(Call("add", <<>>, <<>>), "cpu", FALSE, TRUE).expr,
               "gpu", TRUE, FALSE)
  /\ last.status = "ResultBody_ICHECK"

\* C2 as stated: with n = MaybeOnDevice(x, S, true, false), GetOnDeviceProps(n)
\* is (x, S, true, false), and MaybeOnDevice(n, S, false, true) is one
\* annotation over x whose scope is S.
C2_MergedScopeIsS ==
  \A S \in ConcreteSEScopes :
    LET x == Call("add", <<>>, <<>>)
        n == MaybeOnDevice(x, S, TRUE, FALSE).expr
    IN  LastMaybe(n, S, FALSE, TRUE)
          => /\ GetOnDeviceProps(n) = [body |-> x, se_scope |-> S,
                                       constrain_result |-> TRUE, constrain_body |-> FALSE]
             /\ last.status = "ok"
             /\ GetOnDeviceProps(last.out).body = x
             /\ GetOnDeviceProps(last.out).se_scope = S

\* C2 amended: with n = MaybeOnDevice(x, S, true, false), GetOnDeviceProps(n)
\* is (x, S, true, false), and MaybeOnDevice(n, S, false, true) is one
\* annotation over x with both flags false and the unconstrained scope:
\* the agreeing constraints on the middle value are dropped.
C2_MergedDropsMiddle ==
  \A S \in ConcreteSEScopes :
    LET x == Call("add", <<>>, <<>>)
        n == MaybeOnDevice(x, S, TRUE, FALSE).expr
    IN  LastMaybe(n, S, FALSE, TRUE)
          => /\ GetOnDeviceProps(n) = [body |-> x, se_scope |-> S,
                                       constrain_result |-> TRUE, constrain_body |-> FALSE]
             /\ last.status = "ok"
             /\ GetOnDeviceProps(last.out) =
                  [body |-> x, se_scope |-> FullyUnconstrained,
                   constrain_result |-> FALSE, constrain_body |-> FALSE]

C2_Witness ==
  /\ LastMaybe(MaybeOnDevice(Call("add", <<>>, <<>>), "gpu", TRUE, FALSE).expr,
               "gpu", FALSE, TRUE)
  /\ last.status = "ok"

\* C3: when MaybeOnDevice with a concrete scope is applied to an on_device call
\* whose constrain_body is set, and does not fail, the result has
\* constrain_body set and carries the inner call's scope.
C3_InnerBodyScopeKept ==
  (LastMergedConcrete /\ GetOnDeviceProps(last.body).constrain_body /\ last.status = "ok")
    => /\ GetOnDeviceProps(last.out).constrain_body
       /\ GetOnDeviceProps(last.out).se_scope = GetOnDeviceProps(last.body).se_scope

\* C4: MaybeOnDevice with a concrete scope and constrain_body on an on_device
\* call whose constrain_result is set fails a scope-contradiction check when
\* the two scopes differ.
C4_MiddleContradiction ==
  (/\ LastMergedConcrete
   /\ last.constrain_body
   /\ GetOnDeviceProps(last.body).constrain_result
   /\ last.se_scope # GetOnDeviceProps(last.body).se_scope)
    => (last.status \in ContradictionChecks /\ last.out = Undefined)

C4_Witness ==
  /\ LastMergedConcrete
  /\ last.constrain_body /\ ~last.constrain_result
  /\ GetOnDeviceProps(last.body).constrain_result
  /\ ~GetOnDeviceProps(last.body).constrain_body
  /\ last.se_scope # GetOnDeviceProps(last.body).se_scope
  /\ last.status = "Middle_ICHECK"

\* C5: for a plain expression x, a concrete scope S and flags (cr, cb), with
\* n = MaybeOnDevice(x, S, cr, cb), MaybeOnDevice(n, S, cr, cb) succeeds with
\* one annotation over x whose four fields are those of n.
C5_RewrapIdempotent ==
  \A x \in PlainExprs, S \in ConcreteSEScopes, cr \in BOOLEAN, cb \in BOOLEAN :
    LET n == MaybeOnDevice(x, S, cr, cb).expr
    IN  LastMaybe(n, S, cr, cb)
          => /\ last.status = "ok"
             /\ GetOnDeviceProps(last.out).body = x
             /\ GetOnDeviceProps(last.out) = GetOnDeviceProps(n)

C5_Witness ==
  /\ LastMaybe(MaybeOnDevice(Node("ConstantNode"), "cpu", TRUE, TRUE).expr,
               "cpu", TRUE, TRUE)
  /\ last.status = "ok"
  /\ Depth(last.out) = 1

\* C6: in every on_device call built by OnDevice or returned by MaybeOnDevice,
\* at any nesting level, flags both false imply the unconstrained scope; and
\* OnDevice stores the unconstrained scope when called with both flags false.
C6_NoSmuggledScope ==
  /\ WellFormed(cur)
  /\ WellFormed(last.out)
  /\ (last.op = "OnDevice" /\ ~last.constrain_result /\ ~last.constrain_body)
       => (last.status = "ok"
           /\ GetOnDeviceProps(last.out).se_scope = FullyUnconstrained)

C6_Witness ==
  /\ last.op = "OnDevice"
  /\ last.se_scope \in ConcreteSEScopes
  /\ ~last.constrain_result /\ ~last.constrain_body
  /\ last.status = "ok"

\* C7: GetFunctionParamSEScope(f, i) fails when i >= arity; else yields the
\* unconstrained scope when no attribute is attached; else fails when the
\* attached array's length differs from the arity; else yields the array's
\* element i.  After FunctionOnDevice(f, [A, B], C) on a 2-parameter function
\* index 1 yields B and index 2 fails.
C7_ParamScope ==
  (query.op = "GetFunctionParamSEScope")
    => /\ IF query.index >= function.params
          THEN query.status = "Index_ICHECK_LT"
          ELSE IF function.attrs.kParamSEScopes = <<>>
          THEN query.status = "ok" /\ query.se_scope = FullyUnconstrained
          ELSE IF Len(function.attrs.kParamSEScopes[1]) # function.params
          THEN query.status = "Arity_ICHECK_EQ"
          ELSE /\ query.status = "ok"
               /\ query.se_scope = function.attrs.kParamSEScopes[1][query.index + 1]
       /\ \A C \in SEScopes :
            (function = FunctionOnDevice([params |-> 2, attrs |-> NoAttrs],
                                         <<"cpu", "gpu">>, C))
              => /\ query.index = 1 => (query.status = "ok" /\ query.se_scope = "gpu")
                 /\ query.index = 2 => query.status # "ok"

C7_Witness ==
  /\ query.op = "GetFunctionParamSEScope"
  /\ function = FunctionOnDevice([params |-> 2, attrs |-> NoAttrs],
                                 <<"cpu", "gpu">>, "cpu")
  /\ query.index = 2
  /\ query.status = "Index_ICHECK_LT"

\* C8 as stated: MaybeOnDevice with a concrete scope on an on_device call whose
\* body is again an on_device call, when it does not fail, yields one
\* annotation whose body is not an on_device call.
C8_NestedNormalized ==
  (/\ LastMergedConcrete
   /\ IsOnDevice(GetOnDeviceProps(last.body).body)
   /\ last.status = "ok")
    => (IsOnDevice(last.out) /\ ~IsOnDevice(GetOnDeviceProps(last.out).body))

\* C8 amended: merging does not recurse, it folds exactly one level:
\* MaybeOnDevice with a concrete scope on an on_device call, when it does not
\* fail, yields one on_device call around the inner call's own body, unchanged,
\* so the result's body is an on_device call exactly when the inner body was.
C8_OneLevelFolded ==
  (LastMergedConcrete /\ last.status = "ok")
    => /\ IsOnDevice(last.out)
       /\ GetOnDeviceProps(last.out).body = GetOnDeviceProps(last.body).body
       /\ Depth(last.out) = Depth(last.body)

C8_Witness ==
  /\ LastMergedConcrete
  /\ IsOnDevice(GetOnDeviceProps(last.body).body)
  /\ last.status = "ok"
  /\ Depth(last.out) = 2

\* C9: MaybeOnDevice with a concrete scope on an operator, constructor, global
\* variable, local variable or function value returns that body unchanged and
\* does not fail.
C9_PolymorphicUnchanged ==
  (/\ last.op = "MaybeOnDevice"
   /\ last.body.kind \in PolymorphicKinds
   /\ last.se_scope \in ConcreteSEScopes)
    => (last.status = "ok" /\ last.out = last.body)

C9_Witness ==
  /\ last.op = "MaybeOnDevice"
  /\ last.body = Node("FunctionNode")
  /\ last.se_scope = "gpu"
  /\ last.constrain_result /\ last.constrain_body
  /\ last.status = "ok"

\* C10: OnDevice fails its check when a flag is set with the unconstrained
\* scope, and MaybeOnDevice never fails that check: it ends ok or in one of the
\* two scope-contradiction checks.
C10_MaybeNeverTripsOnDevice ==
  /\ (/\ last.op = "OnDevice"
      /\ (last.constrain_result \/ last.constrain_body)
      /\ IsFullyUnconstrained(last.se_scope))
       => last.status = "OnDevice_ICHECK"
  /\ last.op = "MaybeOnDevice"
       => last.status \in {"ok"} \cup ContradictionChecks

C10_Witness ==
  /\ LastMergedConcrete
  /\ IsFullyUnconstrained(GetOnDeviceProps(last.body).se_scope)
  /\ last.constrain_result
  /\ last.status = "ok"

====
